---- MODULE Spec2Model ----
(***************************************************************************)
(* A model of the job launcher of jx-git-operator                          *)
(* (pkg/launcher/job/job_launcher.go): client.Launch, IsJobActive,         *)
(* client.startNewJob and trimLength, run by concurrent callers against a  *)
(* shared Kubernetes Job store.                                            *)
(*                                                                         *)
(* Strings whose length or content the code looks at (names, label values) *)
(* are sequences of one-character strings, so that len() and slicing are   *)
(* what Go computes on them.  Label keys and error kinds are plain strings.*)
(***************************************************************************)
EXTENDS Integers, Sequences, FiniteSets, TLC

\* ------------------------------------------------------------- bounds

\* cap on the records of the job store (cycles in flight are counted in)
MaxJobs == 2
\* longest raw repository name and commit id fed to the naming algorithm
MaxNameLen == 22
MaxCommitLen == 12

\* the callers of Launch: the trigger loop, and a second one racing with it
Procs == {1, 2}

\* ------------------------------------------------------------ strings

Min(a, b) == IF a <= b THEN a ELSE b

\* text[0:n] of Go, for 0 <= n <= len(text)
Take(text, n) == SubSeq(text, 1, n)

trimLength(text, length) ==
    IF Len(text) <= length THEN text ELSE Take(text, length)

\* ---- the naming normalizer (naming.ToValidValue)
\* Lower-cases, replaces every character that is not legal in a label value
\* by a hyphen, never emits two hyphens in a row, drops what comes before
\* the first letter or digit, drops trailing hyphens and bounds the length.
MaxValueLen == 63

LowerCase == {"a", "b", "c", "r"}
Digits == {"0", "1", "2"}
LowerOf == ("A" :> "a") @@ ("B" :> "b") @@ ("C" :> "c")

ToLower(ch) == IF ch \in DOMAIN LowerOf THEN LowerOf[ch] ELSE ch

IsAlnum(ch) == ch \in LowerCase \cup Digits

RECURSIVE Sanitize(_, _)
Sanitize(rest, out) ==
    IF rest = <<>> THEN out
    ELSE LET lc == ToLower(Head(rest))
             ch == IF IsAlnum(lc) \/ lc = "." THEN lc ELSE "-"
         IN  IF out = <<>> /\ ~IsAlnum(ch) THEN Sanitize(Tail(rest), out)
             ELSE IF ch = "-" /\ out[Len(out)] = "-" THEN Sanitize(Tail(rest), out)
             ELSE Sanitize(Tail(rest), Append(out, ch))

RECURSIVE TrimDashes(_)
TrimDashes(text) ==
    IF text # <<>> /\ text[Len(text)] = "-"
    THEN TrimDashes(Take(text, Len(text) - 1))
    ELSE text

ToValidValue(raw) == trimLength(TrimDashes(Sanitize(raw, <<>>)), MaxValueLen)

\* ------------------------------------------------------------- labels

\* constants.DefaultSelectorKey / DefaultSelectorValue, the managed-by marker
DefaultSelectorKey == "kind"
DefaultSelectorValue == <<"g", "o">>
\* launcher.RepositoryLabelKey and launcher.CommitShaLabelKey
RepositoryLabelKey == "repository"
CommitShaLabelKey == "commit"

NoLabels == <<>>

\* r.Labels[key]: a missing key reads as the empty string
Label(labels, key) == IF key \in DOMAIN labels THEN labels[key] ELSE <<>>

\* labels[key] = value on a Go map
SetLabel(labels, key, value) ==
    [k \in DOMAIN labels \cup {key} |-> IF k = key THEN value ELSE labels[k]]

\* a label selector is a conjunction of key=value requirements
Matches(labels, sel) ==
    \A kv \in sel : kv[1] \in DOMAIN labels /\ labels[kv[1]] = kv[2]

\* ---------------------------------------------------------- job store

\* v1.Job as far as the launcher reads or writes it
JobRec(ns, name, labels) ==
    [ns |-> ns, name |-> name, labels |-> labels, succeeded |-> 0, failed |-> 0]

\* (mutant) a job counts as active until it has succeeded
IsJobActiveUntilSucceeded(r) == r.succeeded = 0

\* IsJobActive returns true if the job has not completed or terminated yet
IsJobActive(r) == r.succeeded = 0 /\ r.failed = 0

\* jobInterface.List: the Jobs of namespace ns whose labels satisfy sel
ListJobs(jobs, ns, sel) ==
    SelectSeq(jobs, LAMBDA r : r.ns = ns /\ Matches(r.labels, sel))

NameTaken(jobs, ns, name) ==
    \E i \in 1..Len(jobs) : jobs[i].ns = ns /\ jobs[i].name = name

\* --------------------------------------------------- the decision (Launch)

\* (mutant) a failed job of the commit does not count, so that it is retried
JobsForShaNotFailed(items, safeSha) ==
    SelectSeq(items, LAMBDA r : Label(r.labels, CommitShaLabelKey) = safeSha
                                /\ r.failed = 0)

\* the two lists the loop of Launch builds
JobsForSha(items, safeSha) ==
    SelectSeq(items, LAMBDA r : Label(r.labels, CommitShaLabelKey) = safeSha)

ActiveJobs(items) == SelectSeq(items, IsJobActive)

\* (mutant) the branch taken if the jobs of the commit were never looked at
DecideIgnoringSha(items, safeSha) ==
    IF Len(ActiveJobs(items)) > 0 THEN "SkipActive" ELSE "Proceed"

\* (mutant) the branch taken if the active jobs were never looked at
DecideIgnoringActive(items, safeSha) ==
    IF Len(JobsForSha(items, safeSha)) = 0 THEN "Proceed" ELSE "SkipSha"

\* the branch Launch takes after the loop
Decide(items, safeSha) ==
    IF Len(JobsForSha(items, safeSha)) = 0
    THEN IF Len(ActiveJobs(items)) > 0 THEN "SkipActive" ELSE "Proceed"
    ELSE "SkipSha"

\* activeJobs[0].Name, the job the log line of the skip names
CitedJob(items) ==
    IF Len(ActiveJobs(items)) > 0 THEN ActiveJobs(items)[1].name ELSE <<>>

\* the selector of the list query: c.selector "," repository key "=" safeName
QuerySelector(configured, safeName) ==
    configured \cup {<<RepositoryLabelKey, safeName>>}

\* ---------------------------------------------------- materialization

\* the prefix length and the total budget of the job name
NamePrefixLen == 20
NameBudget == 30

\* (mutant) the prefix is cut one character short
namePrefixShort(safeName) == trimLength(safeName, NamePrefixLen - 1)

namePrefix(safeName) == trimLength(safeName, NamePrefixLen)

\* (mutant) the budget counts the hyphen twice over
maxShaLenWide(safeName) == NameBudget + 1 - Len(namePrefix(safeName))

maxShaLen(safeName) == NameBudget - Len(namePrefix(safeName))

\* (mutant) the job is named after the repository alone
resourceNameOfRepository(safeName, safeSha) == namePrefix(safeName) \o <<"-">>

resourceName(safeName, safeSha) ==
    namePrefix(safeName) \o <<"-">> \o trimLength(safeSha, maxShaLen(safeName))

\* (mutant) the labels are built afresh, the template's are dropped
ResourceLabelsFresh(tmpl, safeName, safeSha) ==
    SetLabel(SetLabel(SetLabel(NoLabels,
        DefaultSelectorKey, DefaultSelectorValue),
        RepositoryLabelKey, safeName),
        CommitShaLabelKey, safeSha)

\* (mutant) the three keys merged in: a key the template has keeps its value
ResourceLabelsMerged(tmpl, safeName, safeSha) ==
    LET base == IF tmpl.hasLabels THEN tmpl.labels ELSE NoLabels
        Put(labels, key, value) ==
            IF key \in DOMAIN labels THEN labels ELSE SetLabel(labels, key, value)
    IN  Put(Put(Put(base,
            DefaultSelectorKey, DefaultSelectorValue),
            RepositoryLabelKey, safeName),
            CommitShaLabelKey, safeSha)

\* the labels of the submitted Job: the template's, with the three keys set
ResourceLabels(tmpl, safeName, safeSha) ==
    LET base == IF tmpl.hasLabels THEN tmpl.labels ELSE NoLabels
    IN  SetLabel(SetLabel(SetLabel(base,
            DefaultSelectorKey, DefaultSelectorValue),
            RepositoryLabelKey, safeName),
            CommitShaLabelKey, safeSha)

\* ------------------------------------------------ the checked-out files

\* a job.yaml: absent, unparsable, or a Job with the labels of its metadata
\* (hasLabels = FALSE is a Job whose Labels map is nil)
NilTmpl == [hasLabels |-> FALSE, labels |-> NoLabels]
NoFile == [state |-> "none", tmpl |-> NilTmpl]
BadFile == [state |-> "bad", tmpl |-> NilTmpl]
JobFile(labels) == [state |-> "ok", tmpl |-> [hasLabels |-> TRUE, labels |-> labels]]
BareJobFile == [state |-> "ok", tmpl |-> NilTmpl]

\* labels of a template: one unrelated key, and two of the injected keys
\* with values of the template's own
Own == (CommitShaLabelKey :> <<"z">>) @@ (DefaultSelectorKey :> <<"x">>)
           @@ ("app" :> <<"j", "x">>)

\* what opts.Dir holds: <dir>/versionStream/git-operator (vs) and
\* <dir>/.jx/git-operator (jx), the job.yaml and the resources directory of each
Layout(vsDir, vsJob, vsRes, jxJob, jxRes) ==
    [vsDir |-> vsDir, vsJob |-> vsJob, vsRes |-> vsRes, jxJob |-> jxJob, jxRes |-> jxRes]

NoDir == Layout(FALSE, NoFile, FALSE, NoFile, FALSE)

\* the checkout of the racing callers: a job.yaml without labels in the
\* original location, with a resources directory
RaceDirs == { Layout(FALSE, NoFile, FALSE, BareJobFile, TRUE) }

Dirs == RaceDirs \cup {
    NoDir,
    Layout(FALSE, NoFile, FALSE, BareJobFile, FALSE),
    Layout(FALSE, NoFile, FALSE, JobFile(Own), FALSE),
    Layout(FALSE, NoFile, FALSE, BadFile, FALSE),
    Layout(TRUE, BareJobFile, TRUE, JobFile(Own), FALSE),
    Layout(TRUE, JobFile(Own), FALSE, NoFile, TRUE),
    Layout(TRUE, NoFile, FALSE, JobFile(Own), FALSE) }

\* which file-system call fails with an I/O error in a cycle, if any
RaceIOFaults == {"none"}
IOFaults == RaceIOFaults \cup {"folder", "file", "resources", "abs"}

\* ------------------------------------------------------- error outcomes

\* the error Launch returns, by the message it is built with
NoErr == "nil"
ErrList == "failed to find Jobs in namespace"
ErrFolder == "failed to check if folder exists"
ErrFile == "failed to find file"
ErrNoJobFile == "does not have a Job file"
ErrLoad == "failed to load Job file"
ErrResDir == "failed to check if resources directory exists"
ErrAbs == "failed to get absolute resources dir"
ErrApply == "failed to apply resources in dir"
ErrCreate == "failed to create Job"

\* ----------------------------------- startNewJob up to the command runner

\* (mutant) the version stream folder is used only if it holds a job.yaml
FolderWithJobFile(d) == IF d.vsDir /\ d.vsJob.state # "none" THEN "vs" ELSE "jx"

\* the folder startNewJob settles on
Folder(d) == IF d.vsDir THEN "vs" ELSE "jx"

\* the job.yaml and the resources directory of that folder
FileOf(d, folder) == IF folder = "vs" THEN d.vsJob ELSE d.jxJob
ResDirOf(d, folder) == IF folder = "vs" THEN d.vsRes ELSE d.jxRes

\* noApply is opts.NoResourceApply as line 145 read it (FALSE in a cycle that
\* ends before line 145: the flag is drawn where it is read)
Loaded(noApply, folder, tmpl, err, apply, calls) ==
    [noApply |-> noApply, folder |-> folder, tmpl |-> tmpl, err |-> err,
     apply |-> apply, calls |-> calls]

NotLoaded == Loaded(FALSE, "none", NilTmpl, NoErr, FALSE, <<>>)

\* (mutant) the existence check of job.yaml is gone: a missing file fails
\* in yamls.LoadFile
LoadTemplateUnchecked(d, io, noResourceApply) ==
    LET folder == Folder(d)
        file == FileOf(d, folder)
    IN  IF io = "folder"
        THEN Loaded(FALSE, "none", NilTmpl, ErrFolder, FALSE, <<"DirExists">>)
        ELSE IF file.state # "ok"
        THEN Loaded(FALSE, folder, NilTmpl, ErrLoad, FALSE, <<"DirExists", "LoadFile">>)
        ELSE IF noResourceApply
        THEN Loaded(noResourceApply, folder, file.tmpl, NoErr, FALSE,
                    <<"DirExists", "LoadFile">>)
        ELSE IF io = "resources"
        THEN Loaded(noResourceApply, folder, file.tmpl, ErrResDir, FALSE,
                    <<"DirExists", "LoadFile", "DirExists">>)
        ELSE IF ResDirOf(d, folder) /\ io = "abs"
        THEN Loaded(noResourceApply, folder, file.tmpl, ErrAbs, FALSE,
                    <<"DirExists", "LoadFile", "DirExists">>)
        ELSE Loaded(noResourceApply, folder, file.tmpl, NoErr, ResDirOf(d, folder),
                    <<"DirExists", "LoadFile", "DirExists">>)

\* (mutant) opts.NoResourceApply is not looked at
LoadTemplateAlwaysApply(d, io, noResourceApply) ==
    LET folder == Folder(d)
        file == FileOf(d, folder)
    IN  IF io = "folder"
        THEN Loaded(FALSE, "none", NilTmpl, ErrFolder, FALSE, <<"DirExists">>)
        ELSE IF io = "file"
        THEN Loaded(FALSE, folder, NilTmpl, ErrFile, FALSE, <<"DirExists", "FileExists">>)
        ELSE IF file.state = "none"
        THEN Loaded(FALSE, folder, NilTmpl, ErrNoJobFile, FALSE,
                    <<"DirExists", "FileExists">>)
        ELSE IF file.state = "bad"
        THEN Loaded(FALSE, folder, NilTmpl, ErrLoad, FALSE,
                    <<"DirExists", "FileExists", "LoadFile">>)
        ELSE IF io = "resources"
        THEN Loaded(noResourceApply, folder, file.tmpl, ErrResDir, FALSE,
                    <<"DirExists", "FileExists", "LoadFile", "DirExists">>)
        ELSE IF ResDirOf(d, folder) /\ io = "abs"
        THEN Loaded(noResourceApply, folder, file.tmpl, ErrAbs, FALSE,
                    <<"DirExists", "FileExists", "LoadFile", "DirExists">>)
        ELSE Loaded(noResourceApply, folder, file.tmpl, NoErr, ResDirOf(d, folder),
                    <<"DirExists", "FileExists", "LoadFile", "DirExists">>)

\* lines 119-157: resolve the folder, find and parse job.yaml, look for the
\* resources directory; apply = the command runner is to be invoked
LoadTemplate(d, io, noResourceApply) ==
    LET folder == Folder(d)
        file == FileOf(d, folder)
    IN  IF io = "folder"
        THEN Loaded(FALSE, "none", NilTmpl, ErrFolder, FALSE, <<"DirExists">>)
        ELSE IF io = "file"
        THEN Loaded(FALSE, folder, NilTmpl, ErrFile, FALSE, <<"DirExists", "FileExists">>)
        ELSE IF file.state = "none"
        THEN Loaded(FALSE, folder, NilTmpl, ErrNoJobFile, FALSE, <<"DirExists", "FileExists">>)
        ELSE IF file.state = "bad"
        THEN Loaded(FALSE, folder, NilTmpl, ErrLoad, FALSE,
                    <<"DirExists", "FileExists", "LoadFile">>)
        ELSE IF noResourceApply
        THEN Loaded(noResourceApply, folder, file.tmpl, NoErr, FALSE,
                    <<"DirExists", "FileExists", "LoadFile">>)
        ELSE IF io = "resources"
        THEN Loaded(noResourceApply, folder, file.tmpl, ErrResDir, FALSE,
                    <<"DirExists", "FileExists", "LoadFile", "DirExists">>)
        ELSE IF ResDirOf(d, folder) /\ io = "abs"
        THEN Loaded(noResourceApply, folder, file.tmpl, ErrAbs, FALSE,
                    <<"DirExists", "FileExists", "LoadFile", "DirExists">>)
        ELSE Loaded(noResourceApply, folder, file.tmpl, NoErr, ResDirOf(d, folder),
                    <<"DirExists", "FileExists", "LoadFile", "DirExists">>)

\* -------------------------------------------------------------- inputs

\* c.ns, the namespace the launcher was constructed with
ClientNs == "jx"

\* c.selector as NewLauncher got it: the managed-by marker, or a custom one
Selectors == { {<<DefaultSelectorKey, DefaultSelectorValue>>}, {<<"app", <<"j", "x">>>>} }

\* opts.Repository as the trigger passes it: a raw name, and a namespace
\* that is empty or overrides c.ns
Repository(name, namespace) == [name |-> name, namespace |-> namespace]
Repositories == { Repository(<<"A", "/", "b">>, ""), Repository(<<"r">>, "other") }
\* opts.GitSHA
RawShas == { <<"C", "1">>, <<"c", "2">> }

\* launcher.LaunchOptions; Dir and NoResourceApply are drawn where
\* startNewJob first reads them
LaunchOptions(repository, sha) ==
    [name |-> repository.name, namespace |-> repository.namespace, sha |-> sha]

\* the triggers of the trigger loop, and those of the racing callers (two
\* commits of one repository, one commit of the other)
Triggers == {LaunchOptions(r, sha) : r \in Repositories, sha \in RawShas}
RaceTriggers == {o \in Triggers : o.namespace = "" \/ o.sha = <<"C", "1">>}

NoOpts == LaunchOptions(Repository(<<>>, ""), <<>>)
NoResult == [objs |-> <<>>, err |-> NoErr]

\* one raw string of length n, upper case at its start and an illegal
\* character at position k (k = 0: none)
RawStr(n, k) ==
    [i \in 1..n |-> IF i = k THEN "_" ELSE IF i = 1 THEN "A" ELSE "a"]

Marks(n) == {0} \cup {k \in {2, n - 1} : 1 < k /\ k < n}

NameInputs ==
    {RawStr(nk[1], nk[2]) : nk \in
        {nk \in ({1, 3} \cup ((NamePrefixLen - 1)..MaxNameLen)) \X (0..MaxNameLen) :
            nk[2] \in Marks(nk[1])}}

ShaInputs ==
    {RawStr(nk[1], nk[2]) : nk \in
        {nk \in ({1, 3} \cup ((NameBudget - NamePrefixLen - 1)..MaxCommitLen))
                 \X (0..MaxCommitLen) : nk[2] \in Marks(nk[1])}}

\* --------------------------------------------------------------- state

VARIABLES
    selector,   \* c.selector
    store,      \* the Jobs of the cluster, in creation order
    pc,         \* where each caller is inside Launch
    opts,       \* the LaunchOptions of the cycle
    listed,     \* how the cycle's list query ended
    list,       \* list.Items as the cycle's query returned them
    decision,   \* the branch Launch took after its loop
    cited,      \* the active job the skip's log line names
    dir,        \* what the cycle found under opts.Dir
    loaded,     \* folder, template and apply flag startNewJob settled on
    calls,      \* the external calls of the cycle, in order
    added,      \* how many records the cycle has added to the store
    result,     \* what Launch returned
    mode,       \* "seq": one caller, cycle after cycle; "race": two callers
    overlap,    \* a cycle has begun while another was inside Launch
    naming      \* two materializations side by side (naming algorithm alone)

vars == <<selector, store, pc, opts, listed, list, decision, cited, dir, loaded,
          calls, added, result, mode, overlap, naming>>

\* what a step of the cluster or of a caller never touches
fixed == <<selector, mode, naming>>

TargetNs(o) == IF o.namespace = "" THEN ClientNs ELSE o.namespace
SafeName(p) == ToValidValue(opts[p].name)
SafeSha(p) == ToValidValue(opts[p].sha)

NamingOff == [phase |-> "off", a |-> <<<<>>, <<>>>>, b |-> <<<<>>, <<>>>>,
              ra |-> <<>>, rb |-> <<>>]

InitLaunch ==
    /\ store = <<>>
    /\ pc = [p \in Procs |-> "idle"]
    /\ opts = [p \in Procs |-> NoOpts]
    /\ listed = [p \in Procs |-> "none"]
    /\ list = [p \in Procs |-> <<>>]
    /\ decision = [p \in Procs |-> "none"]
    /\ cited = [p \in Procs |-> <<>>]
    /\ dir = [p \in Procs |-> NoDir]
    /\ loaded = [p \in Procs |-> NotLoaded]
    /\ calls = [p \in Procs |-> <<>>]
    /\ added = [p \in Procs |-> 0]
    /\ result = [p \in Procs |-> NoResult]
    /\ overlap = FALSE

\* the trigger loop alone: every cycle runs to completion before the next
Init ==
    /\ selector \in Selectors
    /\ InitLaunch
    /\ mode = "seq"
    /\ naming = NamingOff

\* two callers whose cycles may interleave at every external call
InitRace ==
    /\ selector \in Selectors
    /\ InitLaunch
    /\ mode = "race"
    /\ naming = NamingOff

InFlight(p) == pc[p] \notin {"idle", "done"}

\* ------------------------------------------------------------- actions

\* a trigger calls Launch(opts)
Begin(p) ==
    /\ pc[p] = "idle"
    /\ mode = "seq" => p = 1
    /\ \E o \in (IF mode = "race" THEN RaceTriggers ELSE Triggers) :
            opts' = [opts EXCEPT ![p] = o]
    /\ pc' = [pc EXCEPT ![p] = "list"]
    /\ overlap' = (overlap \/ \E q \in Procs \ {p} : InFlight(q))
    /\ UNCHANGED <<store, listed, list, decision, cited, dir, loaded, calls,
                   added, result, fixed>>

\* (mutant) "not found" is not told apart from the other errors of the query
ListNotFoundIsError(p) ==
    /\ pc[p] = "list"
    /\ \E outcome \in {"ok", "notFound", "error"} :
        LET found == ListJobs(store, TargetNs(opts[p]),
                              QuerySelector(selector, SafeName(p)))
            d == Decide(found, SafeSha(p))
        IN  /\ outcome = "notFound" => found = <<>>
            /\ listed' = [listed EXCEPT ![p] = outcome]
            /\ IF outcome # "ok"
               THEN /\ decision' = [decision EXCEPT ![p] = "Error"]
                    /\ cited' = cited
                    /\ result' = [result EXCEPT ![p] = [objs |-> <<>>, err |-> ErrList]]
                    /\ pc' = [pc EXCEPT ![p] = "done"]
                    /\ list' = list
               ELSE /\ list' = [list EXCEPT ![p] = found]
                    /\ decision' = [decision EXCEPT ![p] = d]
                    /\ cited' = [cited EXCEPT ![p] = IF d = "SkipActive"
                                                     THEN CitedJob(found) ELSE <<>>]
                    /\ result' = [result EXCEPT ![p] = NoResult]
                    /\ pc' = [pc EXCEPT ![p] = IF d = "Proceed" THEN "load" ELSE "done"]
    /\ calls' = [calls EXCEPT ![p] = Append(@, "List")]
    /\ UNCHANGED <<store, opts, dir, loaded, added, overlap, fixed>>

\* (mutant) every error of the query is taken as "no Jobs"
ListErrorsIgnored(p) ==
    /\ pc[p] = "list"
    /\ \E outcome \in {"ok", "notFound", "error"} :
        LET found == ListJobs(store, TargetNs(opts[p]),
                              QuerySelector(selector, SafeName(p)))
            items == IF outcome = "ok" THEN found ELSE <<>>
            d == Decide(items, SafeSha(p))
        IN  /\ outcome = "notFound" => found = <<>>
            /\ listed' = [listed EXCEPT ![p] = outcome]
            /\ list' = [list EXCEPT ![p] = items]
            /\ decision' = [decision EXCEPT ![p] = d]
            /\ cited' = [cited EXCEPT ![p] = IF d = "SkipActive"
                                             THEN CitedJob(items) ELSE <<>>]
            /\ result' = [result EXCEPT ![p] = NoResult]
            /\ pc' = [pc EXCEPT ![p] = IF d = "Proceed" THEN "load" ELSE "done"]
    /\ calls' = [calls EXCEPT ![p] = Append(@, "List")]
    /\ UNCHANGED <<store, opts, dir, loaded, added, overlap, fixed>>

\* Launch, lines 67-107: the list query and the decision taken on its result.
\* The query returns the matching Jobs, or fails with "not found" (taken as
\* no Jobs; the store answers so only when it has no matching Job), or fails
\* with another error.
List(p) ==
    /\ pc[p] = "list"
    /\ \E outcome \in {"ok", "notFound", "error"} :
        LET found == ListJobs(store, TargetNs(opts[p]),
                              QuerySelector(selector, SafeName(p)))
            items == IF outcome = "ok" THEN found ELSE <<>>
            d == Decide(items, SafeSha(p))
        IN  /\ outcome = "notFound" => found = <<>>
            /\ listed' = [listed EXCEPT ![p] = outcome]
            /\ IF outcome = "error"
               THEN /\ decision' = [decision EXCEPT ![p] = "Error"]
                    /\ cited' = cited
                    /\ result' = [result EXCEPT ![p] = [objs |-> <<>>, err |-> ErrList]]
                    /\ pc' = [pc EXCEPT ![p] = "done"]
                    /\ list' = list
               ELSE /\ list' = [list EXCEPT ![p] = items]
                    /\ decision' = [decision EXCEPT ![p] = d]
                    /\ cited' = [cited EXCEPT ![p] = IF d = "SkipActive"
                                                     THEN CitedJob(items) ELSE <<>>]
                    /\ result' = [result EXCEPT ![p] = NoResult]
                    /\ pc' = [pc EXCEPT ![p] = IF d = "Proceed" THEN "load" ELSE "done"]
    /\ calls' = [calls EXCEPT ![p] = Append(@, "List")]
    /\ UNCHANGED <<store, opts, dir, loaded, added, overlap, fixed>>

\* startNewJob, lines 119-157: the file-system part, on what the checkout holds
Load(p) ==
    /\ pc[p] = "load"
    /\ \E d \in (IF mode = "race" THEN RaceDirs ELSE Dirs),
          io \in (IF mode = "race" THEN RaceIOFaults ELSE IOFaults),
          noResourceApply \in (IF mode = "race" THEN {FALSE} ELSE BOOLEAN) :
        LET l == LoadTemplate(d, io, noResourceApply)
        IN  /\ dir' = [dir EXCEPT ![p] = d]
            /\ loaded' = [loaded EXCEPT ![p] = l]
            /\ calls' = [calls EXCEPT ![p] = @ \o l.calls]
            /\ result' = [result EXCEPT ![p] = [objs |-> <<>>, err |-> l.err]]
            /\ pc' = [pc EXCEPT ![p] = IF l.err # NoErr THEN "done"
                                       ELSE IF l.apply THEN "apply" ELSE "create"]
    /\ UNCHANGED <<store, opts, listed, list, decision, cited, added, overlap, fixed>>

\* (mutant) the error of the runner is kept but startNewJob does not return
ApplyWithoutReturn(p) ==
    /\ pc[p] = "apply"
    /\ calls' = [calls EXCEPT ![p] = Append(@, "runner")]
    /\ pc' = [pc EXCEPT ![p] = "create"]
    /\ \E ok \in BOOLEAN :
        IF ok
        THEN result' = result
        ELSE result' = [result EXCEPT ![p] = [objs |-> <<>>, err |-> ErrApply]]
    /\ UNCHANGED <<store, opts, listed, list, decision, cited, dir, loaded,
                   added, overlap, fixed>>

\* (mutant) a failed command is run again
ApplyRetrying(p) ==
    /\ pc[p] = "apply"
    /\ calls' = [calls EXCEPT ![p] = Append(@, "runner")]
    /\ \E ok \in BOOLEAN :
        IF ok
        THEN /\ pc' = [pc EXCEPT ![p] = "create"]
             /\ result' = result
        ELSE LET again == \A i \in 1..Len(calls[p]) : calls[p][i] # "runner"
             IN  /\ pc' = [pc EXCEPT ![p] = IF again THEN "apply" ELSE "done"]
                 /\ result' = [result EXCEPT ![p] =
                                  IF again THEN @
                                  ELSE [objs |-> <<>>, err |-> ErrApply]]
    /\ UNCHANGED <<store, opts, listed, list, decision, cited, dir, loaded,
                   added, overlap, fixed>>

\* startNewJob, lines 158-166: kubectl apply -f <resources dir>
Apply(p) ==
    /\ pc[p] = "apply"
    /\ calls' = [calls EXCEPT ![p] = Append(@, "runner")]
    /\ \E ok \in BOOLEAN :
        IF ok
        THEN /\ pc' = [pc EXCEPT ![p] = "create"]
             /\ result' = result
        ELSE /\ pc' = [pc EXCEPT ![p] = "done"]
             /\ result' = [result EXCEPT ![p] = [objs |-> <<>>, err |-> ErrApply]]
    /\ UNCHANGED <<store, opts, listed, list, decision, cited, dir, loaded,
                   added, overlap, fixed>>

\* the Job startNewJob submits, lines 170-182
Resource(p) ==
    JobRec(TargetNs(opts[p]),
           resourceName(SafeName(p), SafeSha(p)),
           ResourceLabels(loaded[p].tmpl, SafeName(p), SafeSha(p)))

\* jobInterface.Create: the store refuses a name its namespace already holds,
\* and may fail for reasons of its own (here also: the store is full)
CreateFails(jobs, rec, fault) ==
    fault \/ NameTaken(jobs, rec.ns, rec.name) \/ Len(jobs) >= MaxJobs

\* (mutant) the created Job is not handed back to the caller
CreateReturnsNothing(p) ==
    /\ pc[p] = "create"
    /\ calls' = [calls EXCEPT ![p] = Append(@, "Create")]
    /\ pc' = [pc EXCEPT ![p] = "done"]
    /\ \E fault \in BOOLEAN :
        IF CreateFails(store, Resource(p), fault)
        THEN /\ result' = [result EXCEPT ![p] = [objs |-> <<>>, err |-> ErrCreate]]
             /\ UNCHANGED <<store, added>>
        ELSE /\ store' = Append(store, Resource(p))
             /\ added' = [added EXCEPT ![p] = @ + 1]
             /\ result' = [result EXCEPT ![p] = NoResult]
    /\ UNCHANGED <<opts, listed, list, decision, cited, dir, loaded, overlap, fixed>>

\* (mutant) a Job whose name the namespace already holds is written over it
CreateOrReplace(p) ==
    /\ pc[p] = "create"
    /\ calls' = [calls EXCEPT ![p] = Append(@, "Create")]
    /\ pc' = [pc EXCEPT ![p] = "done"]
    /\ \E fault \in BOOLEAN :
        IF fault \/ (Len(store) >= MaxJobs
                     /\ ~NameTaken(store, Resource(p).ns, Resource(p).name))
        THEN /\ result' = [result EXCEPT ![p] = [objs |-> <<>>, err |-> ErrCreate]]
             /\ UNCHANGED <<store, added>>
        ELSE /\ store' =
                  IF NameTaken(store, Resource(p).ns, Resource(p).name)
                  THEN [i \in 1..Len(store) |->
                          IF store[i].ns = Resource(p).ns
                             /\ store[i].name = Resource(p).name
                          THEN Resource(p) ELSE store[i]]
                  ELSE Append(store, Resource(p))
             /\ added' = [added EXCEPT ![p] = @ + 1]
             /\ result' = [result EXCEPT ![p] = [objs |-> <<Resource(p)>>, err |-> NoErr]]
    /\ UNCHANGED <<opts, listed, list, decision, cited, dir, loaded, overlap, fixed>>

\* (mutant) the Job is created, and the error of a step after it is returned
CreateThenFail(p) ==
    /\ pc[p] = "create"
    /\ calls' = [calls EXCEPT ![p] = Append(@, "Create")]
    /\ pc' = [pc EXCEPT ![p] = "done"]
    /\ \E fault \in BOOLEAN, late \in BOOLEAN :
        IF CreateFails(store, Resource(p), fault)
        THEN /\ result' = [result EXCEPT ![p] = [objs |-> <<>>, err |-> ErrCreate]]
             /\ UNCHANGED <<store, added>>
        ELSE /\ store' = Append(store, Resource(p))
             /\ added' = [added EXCEPT ![p] = @ + 1]
             /\ result' = [result EXCEPT ![p] =
                              IF late THEN [objs |-> <<>>, err |-> ErrCreate]
                              ELSE [objs |-> <<Resource(p)>>, err |-> NoErr]]
    /\ UNCHANGED <<opts, listed, list, decision, cited, dir, loaded, overlap, fixed>>

\* startNewJob, lines 184-189
Create(p) ==
    /\ pc[p] = "create"
    /\ calls' = [calls EXCEPT ![p] = Append(@, "Create")]
    /\ pc' = [pc EXCEPT ![p] = "done"]
    /\ \E fault \in BOOLEAN :
        IF CreateFails(store, Resource(p), fault)
        THEN /\ result' = [result EXCEPT ![p] = [objs |-> <<>>, err |-> ErrCreate]]
             /\ UNCHANGED <<store, added>>
        ELSE /\ store' = Append(store, Resource(p))
             /\ added' = [added EXCEPT ![p] = @ + 1]
             /\ result' = [result EXCEPT ![p] = [objs |-> <<Resource(p)>>, err |-> NoErr]]
    /\ UNCHANGED <<opts, listed, list, decision, cited, dir, loaded, overlap, fixed>>

\* Launch has returned; the caller is free for its next trigger
Finish(p) ==
    /\ pc[p] = "done"
    /\ pc' = [pc EXCEPT ![p] = "idle"]
    /\ opts' = [opts EXCEPT ![p] = NoOpts]
    /\ listed' = [listed EXCEPT ![p] = "none"]
    /\ list' = [list EXCEPT ![p] = <<>>]
    /\ decision' = [decision EXCEPT ![p] = "none"]
    /\ cited' = [cited EXCEPT ![p] = <<>>]
    /\ dir' = [dir EXCEPT ![p] = NoDir]
    /\ loaded' = [loaded EXCEPT ![p] = NotLoaded]
    /\ calls' = [calls EXCEPT ![p] = <<>>]
    /\ added' = [added EXCEPT ![p] = 0]
    /\ result' = [result EXCEPT ![p] = NoResult]
    /\ UNCHANGED <<store, overlap, fixed>>

\* the cluster runs an active Job to its end: it succeeds, or fails
JobSucceeds(i) ==
    /\ i \in 1..Len(store)
    /\ IsJobActive(store[i])
    /\ store' = [store EXCEPT ![i].succeeded = @ + 1]
    /\ UNCHANGED <<pc, opts, listed, list, decision, cited, dir, loaded, calls,
                   added, result,
                   overlap, fixed>>

JobFails(i) ==
    /\ i \in 1..Len(store)
    /\ IsJobActive(store[i])
    /\ store' = [store EXCEPT ![i].failed = @ + 1]
    /\ UNCHANGED <<pc, opts, listed, list, decision, cited, dir, loaded, calls,
                   added, result,
                   overlap, fixed>>

Next ==
    \/ \E p \in Procs : Begin(p)
    \/ \E p \in Procs : List(p)
    \/ \E p \in Procs : Load(p)
    \/ \E p \in Procs : Apply(p)
    \/ \E p \in Procs : Create(p)
    \/ \E p \in Procs : Finish(p)
    \/ \E i \in 1..MaxJobs : JobSucceeds(i)
    \/ \E i \in 1..MaxJobs : JobFails(i)

Spec == Init /\ [][Next]_vars

SpecRace == InitRace /\ [][Next]_vars

\* ---------------------------------------- the naming algorithm on its own

\* two triggers (raw repository name, raw commit id) to be materialized
InitName ==
    /\ selector = {<<DefaultSelectorKey, DefaultSelectorValue>>}
    /\ InitLaunch
    /\ mode = "name"
    /\ \E n1 \in NameInputs, s1 \in ShaInputs, n2 \in NameInputs, s2 \in ShaInputs :
          naming = [phase |-> "in", a |-> <<n1, s1>>, b |-> <<n2, s2>>,
                    ra |-> <<>>, rb |-> <<>>]

\* lines 71-72 and 170-175 for each of the two: normalize, then name
Materialize ==
    /\ naming.phase = "in"
    /\ LET a == <<ToValidValue(naming.a[1]), ToValidValue(naming.a[2])>>
           b == <<ToValidValue(naming.b[1]), ToValidValue(naming.b[2])>>
       IN  naming' = [phase |-> "out", a |-> a, b |-> b,
                      ra |-> resourceName(a[1], a[2]),
                      rb |-> resourceName(b[1], b[2])]
    /\ UNCHANGED <<selector, store, pc, opts, listed, list, decision, cited, dir,
                   loaded, calls, added, result, mode, overlap>>

NextName == Materialize

SpecName == InitName /\ [][NextName]_vars

\* ------------------------------------------------- vocabulary of the claims

\* (namespace, repository label, commit label): what a record is dispatched for
RecKey(r) ==
    <<r.ns, Label(r.labels, RepositoryLabelKey), Label(r.labels, CommitShaLabelKey)>>

\* (namespace, normalized repository name, normalized commit id) of a cycle
Target(p) == <<TargetNs(opts[p]), SafeName(p), SafeSha(p)>>

\* (namespace, repository label): the repository a record belongs to
RepoOf(r) == <<r.ns, Label(r.labels, RepositoryLabelKey)>>

Indices(items) == 1..Len(items)

HasCommit(items, sha) ==
    \E i \in Indices(items) : Label(items[i].labels, CommitShaLabelKey) = sha

HasActive(items) ==
    \E i \in Indices(items) : items[i].succeeded = 0 /\ items[i].failed = 0

CountKey(key) == Cardinality({i \in Indices(store) : RecKey(store[i]) = key})

Called(p, call) == \E i \in Indices(calls[p]) : calls[p][i] = call

Succeeded(p) == pc[p] = "done" /\ result[p].err = NoErr

\* ------------------------------------------------------------------ C1

\* C1 as stated: the store never holds two records with the same namespace,
\* repository label and commit label, and every cycle that returned without
\* error either found a record tagged with its commit and created nothing,
\* or added exactly one record tagged with it.
C1_AsStated ==
    /\ \A i, j \in Indices(store) : RecKey(store[i]) = RecKey(store[j]) => i = j
    /\ \A p \in Procs : Succeeded(p) =>
          \/ HasCommit(list[p], SafeSha(p)) /\ added[p] = 0
          \/ added[p] = 1 /\ CountKey(Target(p)) = 1

\* C1 as amended: the same, with the third way a cycle returns without error:
\* its list held no record of its commit but an active record, and it
\* created nothing.
C1_AtMostOnePerCommit ==
    /\ \A i, j \in Indices(store) : RecKey(store[i]) = RecKey(store[j]) => i = j
    /\ \A p \in Procs : Succeeded(p) =>
          \/ HasCommit(list[p], SafeSha(p)) /\ added[p] = 0
          \/ ~HasCommit(list[p], SafeSha(p)) /\ HasActive(list[p]) /\ added[p] = 0
          \/ added[p] = 1 /\ CountKey(Target(p)) = 1

\* a later cycle for a commit that already has its record has returned, and
\* the store holds records of two commits of that repository
C1_Witness ==
    \E p \in Procs :
        /\ Succeeded(p)
        /\ HasCommit(list[p], SafeSha(p))
        /\ CountKey(Target(p)) = 1
        /\ Len(store) = 2
        /\ RepoOf(store[1]) = RepoOf(store[2])

\* ------------------------------------------------------------------ C2

OneActivePerRepository ==
    \A i, j \in Indices(store) :
        (RepoOf(store[i]) = RepoOf(store[j]) /\ IsJobActive(store[i])
            /\ IsJobActive(store[j])) => i = j

\* every record of the store is one the list query of its repository returns
SelectorCoversStore ==
    \A i \in Indices(store) : Matches(store[i].labels, selector)

SelectedBy(r) ==
    Matches(r.labels, QuerySelector(selector, Label(r.labels, RepositoryLabelKey)))

OneActiveAmongSelected ==
    \A i, j \in Indices(store) :
        (RepoOf(store[i]) = RepoOf(store[j])
            /\ IsJobActive(store[i]) /\ IsJobActive(store[j])
            /\ SelectedBy(store[i]) /\ SelectedBy(store[j])) => i = j

C3_Idempotence ==
    \A p \in Procs :
        /\ (listed[p] \in {"ok", "notFound"} /\ HasCommit(list[p], SafeSha(p))) =>
              /\ decision[p] = "SkipSha"
              /\ pc[p] = "done"
              /\ calls[p] = <<"List">>
              /\ added[p] = 0
              /\ result[p] = NoResult
        /\ (listed[p] = "ok" /\ added[p] = 0 /\ ~overlap
              /\ \E i \in Indices(store) :
                    RecKey(store[i]) = Target(p) /\ Matches(store[i].labels, selector)) =>
              decision[p] = "SkipSha"

\* a commit whose job has failed is launched again while a job of another
\* commit is active: the list holds both records
C3_Witness ==
    \E p \in Procs :
        /\ decision[p] = "SkipSha"
        /\ Len(list[p]) = 2
        /\ \E i, j \in Indices(list[p]) :
              /\ RecKey(list[p][i]) = Target(p)
              /\ list[p][i].failed > 0
              /\ RecKey(list[p][j]) # Target(p)
              /\ list[p][j].succeeded = 0 /\ list[p][j].failed = 0

\* ------------------------------------------------------------------ C4

\* C4: a cycle whose list holds exactly one record, of another commit, skips
\* when that record's counters are both zero, naming that record, and goes on
\* to start a new job when either counter is not zero; whenever a cycle skips
\* for an active job, the job it names is the first active one of its list.
C4_SingleFlight ==
    \A p \in Procs :
        /\ (listed[p] = "ok" /\ Len(list[p]) = 1 /\ ~HasCommit(list[p], SafeSha(p))) =>
              IF list[p][1].succeeded = 0 /\ list[p][1].failed = 0
              THEN /\ decision[p] = "SkipActive"
                   /\ cited[p] = list[p][1].name
                   /\ pc[p] = "done"
                   /\ added[p] = 0
                   /\ result[p] = NoResult
              ELSE /\ decision[p] = "Proceed"
                   /\ Called(p, "DirExists") \/ pc[p] = "load"
        /\ decision[p] = "SkipActive" =>
              \E i \in Indices(list[p]) :
                  /\ list[p][i].succeeded = 0 /\ list[p][i].failed = 0
                  /\ cited[p] = list[p][i].name
                  /\ \A j \in 1..(i - 1) :
                        list[p][j].succeeded # 0 \/ list[p][j].failed # 0

\* the only record listed is of another commit and has failed, and the cycle
\* has gone on to create the job of its own commit
C4_Witness ==
    \E p \in Procs :
        /\ Len(list[p]) = 1
        /\ ~HasCommit(list[p], SafeSha(p))
        /\ list[p][1].failed > 0
        /\ list[p][1].succeeded = 0
        /\ decision[p] = "Proceed"
        /\ added[p] = 1

\* ------------------------------------------------------------------ C5

\* two callers inside (or just out of) cycles for the same namespace,
\* repository and commit
SameTarget(p, q) ==
    p # q /\ pc[p] # "idle" /\ pc[q] # "idle" /\ Target(p) = Target(q)

\* C5: nothing in Launch stops the second of two submissions for one commit.
\* Whenever two cycles for the same repository and commit have both made the
\* create call, each had decided to proceed on a list holding no record of
\* the commit and no active record; the store, which refuses a name it
\* holds, accepted at most one of the two, and the other returned the
\* create error.
C5_RaceNotPrevented ==
    \A p, q \in Procs :
        (SameTarget(p, q) /\ Called(p, "Create") /\ Called(q, "Create")) =>
            /\ decision[p] = "Proceed"
            /\ ~HasCommit(list[p], SafeSha(p))
            /\ ~HasActive(list[p])
            /\ added[p] + added[q] <= 1
            /\ added[p] = 0 => result[p].err = ErrCreate

\* both cycles listed before either created: one has created the job of the
\* commit, the other, whose query would have returned it, has made the
\* create call too
C5_Witness ==
    \E p, q \in Procs :
        /\ SameTarget(p, q)
        /\ selector = {<<DefaultSelectorKey, DefaultSelectorValue>>}
        /\ listed[p] = "ok" /\ listed[q] = "ok"
        /\ Called(p, "Create") /\ Called(q, "Create")
        /\ added[p] = 1
        /\ result[q].err = ErrCreate

\* ------------------------------------------------------------ C6, C7

\* the parts of a job name, written out: the leading min(20, length)
\* characters of the repository name, and the leading
\* min(length, 30 - length(prefix)) characters of the commit id
PrefixPart(name) == Take(name, Min(20, Len(name)))
ShaPart(name, sha) == Take(sha, Min(Len(sha), 30 - Len(PrefixPart(name))))

Materialized == mode = "name" /\ naming.phase = "out"

\* C6 as stated: two materializations that differ in normalized repository
\* name or in normalized commit id never get the same resource name.
C6_AsStated ==
    Materialized => (naming.a # naming.b => naming.ra # naming.rb)

\* C6 as amended: two materializations whose name prefixes are equally long
\* get the same resource name exactly when the repository names agree in
\* their leading 20 characters and the commit ids agree in their leading
\* 30 - length(prefix) characters.
C6_UniqueUpToTruncation ==
    Materialized =>
        LET pa == PrefixPart(naming.a[1])
            pb == PrefixPart(naming.b[1])
            sa == ShaPart(naming.a[1], naming.a[2])
            sb == ShaPart(naming.b[1], naming.b[2])
        IN  Len(pa) = Len(pb) => (naming.ra = naming.rb <=> (pa = pb /\ sa = sb))

\* two repository names longer than 20 characters that first differ in
\* their 20th character, materialized for the same commit, get two names
C6_Witness ==
    /\ Materialized
    /\ Len(naming.a[1]) > 20 /\ Len(naming.b[1]) > 20
    /\ Take(naming.a[1], 19) = Take(naming.b[1], 19)
    /\ naming.a[1][20] # naming.b[1][20]
    /\ naming.a[2] = naming.b[2]
    /\ naming.ra # naming.rb

\* C7: the job name is the leading min(20, length) characters of the
\* normalized repository name, a hyphen, and the leading
\* min(length, 30 - length(prefix)) characters of the normalized commit id;
\* nothing is padded, short inputs are taken whole, and the name is at most
\* 31 characters long.
C7_NameFormula ==
    Materialized =>
        \A m \in { <<naming.a, naming.ra>>, <<naming.b, naming.rb>> } :
            LET name == m[1][1]
                sha == m[1][2]
                pre == Min(20, Len(name))
            IN  /\ m[2] = PrefixPart(name) \o <<"-">> \o ShaPart(name, sha)
                /\ Len(m[2]) = pre + 1 + Min(Len(sha), 30 - pre)
                /\ Len(m[2]) <= 31
                /\ Len(name) <= 20 => SubSeq(m[2], 1, Len(name)) = name
                /\ Len(sha) <= 30 - pre => m[2] = PrefixPart(name) \o <<"-">> \o sha

\* a repository name and a commit id that are both cut (a name of 31
\* characters), and a short pair that is taken whole
C7_Witness ==
    /\ Materialized
    /\ Len(naming.a[1]) > 20 /\ Len(naming.a[2]) > 10
    /\ Len(naming.ra) = 31
    /\ Len(naming.b[1]) < 20 /\ Len(naming.b[2]) < 10
    /\ naming.rb = naming.b[1] \o <<"-">> \o naming.b[2]

\* ------------------------------------------------------------------ C8

\* the three keys startNewJob sets
InjectedKeys == {DefaultSelectorKey, RepositoryLabelKey, CommitShaLabelKey}

\* the Job a cycle has created, as Create returned it
CreatedBy(p) == result[p].objs[1]

\* C8: the labels of a created job are the template's with the three keys
\* set: the managed-by marker, the repository key with the normalized
\* repository name, the commit key with the normalized commit id; every
\* other label of the template is there with its value, nothing else is,
\* and a template without labels gets exactly the three. The store holds
\* the job under these labels.
C8_LabelPreservation ==
    \A p \in Procs : (Called(p, "Create") /\ added[p] = 1) =>
        LET t == loaded[p].tmpl
            got == CreatedBy(p).labels
            own == IF t.hasLabels THEN DOMAIN t.labels ELSE {}
        IN  /\ DOMAIN got = own \cup InjectedKeys
            /\ got[DefaultSelectorKey] = DefaultSelectorValue
            /\ got[RepositoryLabelKey] = SafeName(p)
            /\ got[CommitShaLabelKey] = SafeSha(p)
            /\ \A k \in own \ InjectedKeys : got[k] = t.labels[k]
            /\ ~t.hasLabels => DOMAIN got = InjectedKeys
            /\ \E i \in Indices(store) :
                  /\ store[i].ns = TargetNs(opts[p])
                  /\ store[i].name = CreatedBy(p).name
                  /\ store[i].labels = got

\* a job created from a template that has an unrelated label and values of
\* its own under two of the three keys: the unrelated label is kept, the
\* two values are replaced
C8_Witness ==
    \E p \in Procs :
        /\ Called(p, "Create") /\ added[p] = 1
        /\ loaded[p].tmpl.hasLabels
        /\ loaded[p].tmpl.labels = Own
        /\ CreatedBy(p).labels["app"] = Own["app"]
        /\ CreatedBy(p).labels[CommitShaLabelKey] # Own[CommitShaLabelKey]
        /\ CreatedBy(p).labels[DefaultSelectorKey] # Own[DefaultSelectorKey]

\* ------------------------------------------------------------ C9, C10

\* startNewJob has read the checkout in this cycle
HasLoaded(p) == loaded[p].calls # <<>>

\* the job.yaml the claim calls resolved, written out
ResolvedFile(d) == IF d.vsDir THEN d.vsJob ELSE d.jxJob

\* C9: the folder is the version stream one exactly if that directory
\* exists; the file loaded is the job.yaml of that folder (the version
\* stream one when both exist); if that file does not exist the cycle ends
\* with the 'does not have a Job file' error, without parsing anything and
\* without creating a job, whatever the other location holds.
C9_TemplateResolution ==
    \A p \in Procs : HasLoaded(p) =>
        LET d == dir[p]
            l == loaded[p]
        IN  /\ l.err # ErrFolder => l.folder = (IF d.vsDir THEN "vs" ELSE "jx")
            /\ l.err \notin {ErrFolder, ErrFile} =>
                  /\ ResolvedFile(d).state = "none" =>
                        /\ l.err = ErrNoJobFile
                        /\ pc[p] = "done"
                        /\ result[p] = [objs |-> <<>>, err |-> ErrNoJobFile]
                        /\ added[p] = 0
                        /\ ~Called(p, "LoadFile")
                        /\ ~Called(p, "runner")
                        /\ ~Called(p, "Create")
                  /\ ResolvedFile(d).state = "ok" =>
                        /\ l.err \notin {ErrNoJobFile, ErrLoad}
                        /\ l.tmpl = ResolvedFile(d).tmpl
                        /\ added[p] = 1 =>
                              CreatedBy(p).labels =
                                  ResourceLabels(ResolvedFile(d).tmpl,
                                                 SafeName(p), SafeSha(p))

\* the version stream folder exists without a job.yaml, the original
\* location holds one: the cycle has ended with the error, nothing created
C9_Witness ==
    \E p \in Procs :
        /\ HasLoaded(p)
        /\ dir[p].vsDir
        /\ dir[p].vsJob.state = "none"
        /\ dir[p].jxJob.state = "ok"
        /\ pc[p] = "done"
        /\ result[p].err = ErrNoJobFile
        /\ added[p] = 0

\* the error outcomes other than the missing job file
GenericErrors ==
    {ErrList, ErrFolder, ErrFile, ErrLoad, ErrResDir, ErrAbs, ErrApply, ErrCreate}

\* C10: a cycle ends with the 'does not have a Job file' error exactly when
\* the two file-system checks went through and the resolved job.yaml does
\* not exist; that outcome is none of the other errors (file-system access,
\* parse, apply, store), and it is neither a skip nor a created job: it
\* carries an error and no object, where those carry no error.
C10_NotConfiguredDistinct ==
    /\ ErrNoJobFile \notin GenericErrors \cup {NoErr}
    /\ \A p \in Procs :
        /\ result[p].err = ErrNoJobFile =>
              /\ HasLoaded(p)
              /\ ResolvedFile(dir[p]).state = "none"
              /\ decision[p] = "Proceed"
              /\ result[p].objs = <<>>
              /\ result[p] # NoResult
              /\ calls[p] = <<"List", "DirExists", "FileExists">>
        /\ (HasLoaded(p) /\ ResolvedFile(dir[p]).state = "none") =>
              result[p].err \in {ErrFolder, ErrFile, ErrNoJobFile}
        /\ (HasLoaded(p) /\ ResolvedFile(dir[p]).state # "none") =>
              result[p].err # ErrNoJobFile
        /\ decision[p] \in {"SkipSha", "SkipActive"} => result[p] = NoResult
        /\ added[p] = 1 => (result[p].err = NoErr /\ Len(result[p].objs) = 1)

\* a checkout without any git-operator files: the cycle has ended with the
\* missing job file error, where an unparsable job.yaml would have ended it
\* with the parse error
C10_Witness ==
    \E p \in Procs :
        /\ pc[p] = "done"
        /\ dir[p] = NoDir
        /\ HasLoaded(p)
        /\ result[p].err = ErrNoJobFile
        /\ result[p].err # ErrLoad
        /\ store = <<>>

\* ----------------------------------------------------------------- C11

\* the job.yaml of the cycle has been parsed: line 145 has read the flag
HasParsed(p) == Called(p, "LoadFile") /\ loaded[p].err # ErrLoad

\* the resources directory next to the resolved job file, written out
ResolvedResources(d) == IF d.vsDir THEN d.vsRes ELSE d.jxRes

\* how many times the cycle has made a call
CallCount(p, call) == Cardinality({i \in Indices(calls[p]) : calls[p][i] = call})

\* the cycle is past the place of the command runner (line 163)
PastRunner(p) == pc[p] \in {"create", "done"}

\* C11: in a cycle whose NoResourceApply flag is set the command runner is
\* never invoked and the resources directory is not even looked for,
\* whether it exists or not; in a cycle whose flag is not set, and whose
\* file-system calls return no error, the runner is invoked exactly when
\* the resources directory exists next to the resolved job file.
C11_ApplyGating ==
    \A p \in Procs : HasParsed(p) =>
        /\ loaded[p].noApply =>
              /\ ~Called(p, "runner")
              /\ ~loaded[p].apply
              /\ CallCount(p, "DirExists") = 1
              /\ pc[p] # "apply"
        /\ (~loaded[p].noApply /\ loaded[p].err = NoErr) =>
              /\ loaded[p].apply = ResolvedResources(dir[p])
              /\ CallCount(p, "DirExists") = 2
              /\ pc[p] = "apply" => ResolvedResources(dir[p])
              /\ PastRunner(p) =>
                    (Called(p, "runner") <=> ResolvedResources(dir[p]))

\* the flag is set, the resources directory exists next to the job file,
\* and the cycle has created its job without invoking the runner
C11_Witness ==
    \E p \in Procs :
        /\ HasParsed(p)
        /\ loaded[p].noApply
        /\ ResolvedResources(dir[p])
        /\ added[p] = 1
        /\ ~Called(p, "runner")

\* ----------------------------------------------------------------- C12

\* C12: a cycle whose resource-apply command has failed is over with the
\* 'failed to apply resources' error: it returns no object, the runner was
\* its last call, the create call is not made and no record is added; and
\* a cycle that invoked the runner and ended without the create call ended
\* with that error.
C12_ApplyFailureAborts ==
    \A p \in Procs :
        /\ result[p].err = ErrApply =>
              /\ pc[p] = "done"
              /\ result[p].objs = <<>>
              /\ calls[p][Len(calls[p])] = "runner"
              /\ ~Called(p, "Create")
              /\ added[p] = 0
        /\ (Called(p, "runner") /\ pc[p] = "done" /\ ~Called(p, "Create")) =>
              result[p].err = ErrApply

\* the runner has failed in a cycle that had decided to create the first
\* job of the store: the store is still empty
C12_Witness ==
    \E p \in Procs :
        /\ pc[p] = "done"
        /\ Called(p, "runner")
        /\ result[p].err = ErrApply
        /\ store = <<>>

\* ----------------------------------------------------------------- C13

\* C13: a query that returned no Jobs, as an empty list or as "not found",
\* ends in the decision to proceed: the cycle goes on to startNewJob and
\* does not return the list error; "not found" leaves the cycle with an
\* empty list.
C13_NotFoundProceeds ==
    \A p \in Procs :
        /\ listed[p] = "notFound" => list[p] = <<>>
        /\ (listed[p] \in {"ok", "notFound"} /\ list[p] = <<>>) =>
              /\ decision[p] = "Proceed"
              /\ result[p].err # ErrList
              /\ pc[p] = "load" \/ HasLoaded(p)

\* a cycle whose query answered "not found" has created its job
C13_Witness ==
    \E p \in Procs :
        /\ listed[p] = "notFound"
        /\ decision[p] = "Proceed"
        /\ added[p] = 1
        /\ Len(result[p].objs) = 1

\* ----------------------------------------------------------------- C14

\* C14: a cycle whose query failed with an error other than "not found" is
\* over with the 'failed to find Jobs' error: it took neither skip nor the
\* way to startNewJob, the query was its only call (no file read, no
\* command run, no create call), and it added no record.
C14_ListErrorAborts ==
    \A p \in Procs :
        /\ listed[p] = "error" =>
              /\ pc[p] = "done"
              /\ decision[p] \notin {"SkipSha", "SkipActive", "Proceed"}
              /\ result[p] = [objs |-> <<>>, err |-> ErrList]
              /\ calls[p] = <<"List">>
              /\ ~HasLoaded(p)
              /\ added[p] = 0
        /\ result[p].err = ErrList => listed[p] = "error"

\* the query of a cycle has failed, with a job that has ended in the store,
\* and the cycle is over with the list error
C14_Witness ==
    \E p \in Procs :
        /\ listed[p] = "error"
        /\ pc[p] = "done"
        /\ result[p].err = ErrList
        /\ Len(store) = 1
        /\ ~IsJobActive(store[1])

\* ----------------------------------------------------------------- C15

\* a record of the store with the namespace, name and labels of rec
InStore(ns, rec) ==
    \E i \in Indices(store) :
        /\ store[i].ns = ns
        /\ store[i].name = rec.name
        /\ store[i].labels = rec.labels

\* C15: what a cycle that is over returns. It returns objects exactly when
\* it has created a job: then exactly one, the created job (named and
\* labelled for the cycle's repository and commit, and in the store), and no
\* error. On either skip it returns no object and no error. In every other
\* case it returns an error and no object.
C15_TriggerOutput ==
    \A p \in Procs : pc[p] = "done" =>
        /\ result[p].objs # <<>> <=> added[p] = 1
        /\ added[p] = 1 =>
              /\ Len(result[p].objs) = 1
              /\ result[p].err = NoErr
              /\ CreatedBy(p).ns = TargetNs(opts[p])
              /\ RecKey(CreatedBy(p)) = Target(p)
              /\ InStore(TargetNs(opts[p]), CreatedBy(p))
        /\ decision[p] \in {"SkipSha", "SkipActive"} =>
              (result[p] = NoResult /\ added[p] = 0)
        /\ (decision[p] \notin {"SkipSha", "SkipActive"} /\ added[p] = 0) =>
              (result[p].err # NoErr /\ result[p].objs = <<>>)

\* a cycle has returned the second job of the store
C15_Witness ==
    \E p \in Procs :
        /\ pc[p] = "done"
        /\ Len(store) = 2
        /\ Len(result[p].objs) = 1
        /\ result[p].err = NoErr
        /\ CreatedBy(p).name = store[2].name
        /\ CreatedBy(p).name # store[1].name

\* ----------------------------------------------------------------- C16

\* a step of Launch (the steps of the cluster leave pc alone)
LaunchStep == pc' # pc

\* C16: no step of Launch changes or removes a record the store holds:
\* after the step the store is the store of before, or that store with one
\* record appended, and then the step is the create call of a cycle that
\* had added none; no cycle adds more than one record.
C16_NoMutation ==
    /\ [](\A p \in Procs : added[p] <= 1)
    /\ [][LaunchStep =>
            /\ Len(store') >= Len(store)
            /\ SubSeq(store', 1, Len(store)) = store
            /\ Len(store') <= Len(store) + 1
            /\ store' # store =>
                  \E p \in Procs :
                      /\ pc[p] = "create"
                      /\ added[p] = 0 /\ added'[p] = 1
                      /\ \A q \in Procs \ {p} : added'[q] = added[q]]_vars

\* a cycle has added the second record of the store next to a first one
\* that has succeeded
C16_Witness ==
    \E p \in Procs :
        /\ added[p] = 1
        /\ Len(store) = 2
        /\ store[1].succeeded = 1
        /\ store[1].failed = 0
        /\ IsJobActive(store[2])

\* ----------------------------------------------------------------- C17

\* the external calls of a cycle that goes all the way, in order: with the
\* resource apply, with a resources directory looked for and not found,
\* and with the NoResourceApply flag set
FullCycles ==
    { <<"List", "DirExists", "FileExists", "LoadFile", "DirExists", "runner", "Create">>,
      <<"List", "DirExists", "FileExists", "LoadFile", "DirExists", "Create">>,
      <<"List", "DirExists", "FileExists", "LoadFile", "Create">> }

IsPrefix(s, t) == Len(s) <= Len(t) /\ SubSeq(t, 1, Len(s)) = s

\* C17: the calls of a cycle are, in order, the list query, the folder
\* check, the file check, the parse, the resources directory check, the
\* command runner and the create call, possibly ending early and with the
\* optional ones left out. The decision is taken right after the list query
\* and nothing follows a skip; the runner is invoked at most once, after a
\* successful parse and before the create call.
C17_StepOrder ==
    \A p \in Procs :
        /\ \E full \in FullCycles : IsPrefix(calls[p], full)
        /\ calls[p] # <<>> <=> decision[p] # "none"
        /\ Len(calls[p]) > 1 => decision[p] = "Proceed"
        /\ decision[p] \in {"SkipSha", "SkipActive"} =>
              (calls[p] = <<"List">> /\ ~HasLoaded(p) /\ pc[p] = "done")
        /\ CallCount(p, "runner") <= 1
        /\ Called(p, "runner") =>
              /\ HasParsed(p)
              /\ loaded[p].err = NoErr
              /\ Called(p, "Create") => calls[p][Len(calls[p]) - 1] = "runner"
        /\ Called(p, "Create") => calls[p][Len(calls[p])] = "Create"

\* a cycle has made all seven calls
C17_Witness ==
    \E p \in Procs :
        /\ Len(calls[p]) = 7
        /\ Called(p, "runner")
        /\ Called(p, "Create")
        /\ added[p] = 1

\* ----------------------------------------------------------------- C18

\* two callers inside (or just out of) cycles for one repository of one
\* namespace and two different commits
TwoCommits(p, q) ==
    /\ p # q /\ pc[p] # "idle" /\ pc[q] # "idle"
    /\ TargetNs(opts[p]) = TargetNs(opts[q])
    /\ SafeName(p) = SafeName(q)
    /\ SafeSha(p) # SafeSha(q)

\* the records of the store that are active
ActiveRecords == {i \in Indices(store) : IsJobActive(store[i])}

\* C18: nothing in Launch keeps two cycles for two commits of one
\* repository apart. Whenever both have made the create call, each had
\* decided to proceed on a list without an active record and without a
\* record of its commit; the two jobs have different names, so that the
\* store refuses neither for the other; and when both calls went through,
\* the store holds a record of each commit for the one repository.
C18_RaceTwoActive ==
    \A p, q \in Procs :
        (TwoCommits(p, q) /\ Called(p, "Create") /\ Called(q, "Create")) =>
            /\ decision[p] = "Proceed"
            /\ ~HasActive(list[p])
            /\ ~HasCommit(list[p], SafeSha(p))
            /\ resourceName(SafeName(p), SafeSha(p))
                   # resourceName(SafeName(q), SafeSha(q))
            /\ (added[p] = 1 /\ added[q] = 1) =>
                  /\ CountKey(Target(p)) = 1
                  /\ CountKey(Target(q)) = 1
                  /\ \E i, j \in Indices(store) :
                        /\ i # j
                        /\ RepoOf(store[i]) = RepoOf(store[j])
                        /\ RecKey(store[i]) = Target(p)
                        /\ RecKey(store[j]) = Target(q)

\* from the empty store both cycles listed nothing, under the default
\* selector, and both created: two active records of one repository
C18_Witness ==
    \E p, q \in Procs :
        /\ TwoCommits(p, q)
        /\ selector = {<<DefaultSelectorKey, DefaultSelectorValue>>}
        /\ listed[p] = "ok" /\ listed[q] = "ok"
        /\ list[p] = <<>> /\ list[q] = <<>>
        /\ added[p] = 1 /\ added[q] = 1
        /\ Len(store) = 2
        /\ ActiveRecords = {1, 2}
        /\ RepoOf(store[1]) = RepoOf(store[2])
        /\ RecKey(store[1]) # RecKey(store[2])

\* ----------------------------------------------------------------- C19

\* C19 as stated: every record the store holds (all are created by Launch)
\* is returned by the list query of a Launch for its repository and
\* namespace, whatever selector the launcher was configured with: its labels
\* satisfy the configured selector together with repository key = its
\* repository label.
C19_AsStated ==
    \A i \in Indices(store) :
        /\ SelectedBy(store[i])
        /\ \E k \in Indices(ListJobs(store, store[i].ns,
                    QuerySelector(selector,
                                  Label(store[i].labels, RepositoryLabelKey)))) :
              ListJobs(store, store[i].ns,
                       QuerySelector(selector,
                                     Label(store[i].labels, RepositoryLabelKey)))[k].name
                  = store[i].name

\* ----------------------------------------------------------------- C20

\* C20: a cycle that is over with an error, whichever, has added no record
\* and returns none; and a step of Launch changes the store only as the
\* create call of a cycle that then returns without error.
C20_ErrorLeavesStore ==
    /\ [](\A p \in Procs :
            (pc[p] = "done" /\ result[p].err # NoErr) =>
                /\ result[p].err \in GenericErrors \cup {ErrNoJobFile}
                /\ added[p] = 0
                /\ result[p].objs = <<>>)
    /\ [][(LaunchStep /\ store' # store) =>
            \E p \in Procs :
                /\ pc[p] = "create" /\ pc'[p] = "done"
                /\ added'[p] = added[p] + 1
                /\ result'[p].err = NoErr
                /\ store' = Append(store, result'[p].objs[1])]_vars

\* the create call of a cycle has failed on a store that holds a job: the
\* store holds that job and no other
C20_Witness ==
    \E p \in Procs :
        /\ pc[p] = "done"
        /\ result[p].err = ErrCreate
        /\ added[p] = 0
        /\ Len(store) = 1

====
